---- MODULE Spec2Model ----
(***************************************************************************)
(* Model of src/app.py: the lymphodepletion dosimetry engine               *)
(* calculate_lymphodepletion, its three module-level tables, and the way   *)
(* main() calls it.                                                        *)
(*                                                                         *)
(* Python floats are modelled as decimal floating point numbers with a     *)
(* seven digit significand (truncating), the exponent range of binary64,   *)
(* signed infinities and NaN.  A number is a record                        *)
(*     [k |-> "num", s |-> sign, m |-> significand, e |-> exponent]        *)
(* standing for s * m * 10^e, with m = 0 or Mant \div 10 <= m < Mant.      *)
(***************************************************************************)
EXTENDS Integers, Sequences, FiniteSets, TLC

\* ---------------------------------------------------------------------
\* Decimal floating point
\* ---------------------------------------------------------------------

\* F applied to the values of its arguments: each argument is evaluated
\* once, as Python evaluates the operands of an expression once.
With1(x, F(_)) == CHOOSE r \in {F(p) : p \in {x}} : TRUE

With2(x, y, F(_, _)) == CHOOSE r \in {F(p[1], p[2]) : p \in {<<x, y>>}} : TRUE

With3(x, y, z, F(_, _, _)) ==
    CHOOSE r \in {F(p[1], p[2], p[3]) : p \in {<<x, y, z>>}} : TRUE

With4(w, x, y, z, F(_, _, _, _)) ==
    CHOOSE r \in {F(p[1], p[2], p[3], p[4]) : p \in {<<w, x, y, z>>}} : TRUE

Zero == [k |-> "num", s |-> 0, m |-> 0, e |-> 0]

Inf(sg) == [k |-> "inf", s |-> sg, m |-> 0, e |-> 0]

NaN == [k |-> "nan", s |-> 0, m |-> 0, e |-> 0]

Abs(n) == IF n < 0 THEN 0 - n ELSE n

Sign(n) == IF n < 0 THEN 0 - 1 ELSE IF n = 0 THEN 0 ELSE 1

\* number of decimal digits of n, 0 < n < 2^31
Digits(n) ==
    IF n < 10 THEN 1 ELSE IF n < 100 THEN 2 ELSE IF n < 1000 THEN 3
    ELSE IF n < 10000 THEN 4 ELSE IF n < 100000 THEN 5
    ELSE IF n < 1000000 THEN 6 ELSE IF n < 10000000 THEN 7
    ELSE IF n < 100000000 THEN 8 ELSE IF n < 1000000000 THEN 9 ELSE 10

\* Significands have seven digits; a magnitude below 1e-324 is 0.0 and
\* one of 1e309 or more is inf (binary64 spans 4.9e-324 .. 1.8e308).
NormV(sg, n, ex) ==
    IF n = 0 \/ sg = 0 THEN Zero
    ELSE LET d  == Digits(n)
             mm == IF d > 7 THEN n \div (10 ^ (d - 7)) ELSE n * (10 ^ (7 - d))
             ee == ex + d - 7
         IN  IF ee + 6 < 0 - 324 THEN Zero
             ELSE IF ee + 6 > 308 THEN Inf(sg)
             ELSE [k |-> "num", s |-> sg, m |-> mm, e |-> ee]

\* the number sg * n * 10^ex, n >= 0, brought to a seven digit significand
\* (excess digits are dropped); underflow gives 0.0, overflow gives inf
Norm(sg, n, ex) == With3(sg, n, ex, NormV)

\* the literal n * 10^ex, as 0.85 == Dec(85, -2)
Dec(n, ex) == Norm(Sign(n), Abs(n), ex)

FInt(n) == Dec(n, 0)

NegV(a) == [a EXCEPT !.s = 0 - a.s]

Neg(a) == With1(a, NegV)

MulV(a, b) ==
    IF a.k = "nan" \/ b.k = "nan" THEN NaN
    ELSE IF a.k = "inf" \/ b.k = "inf"
         THEN (IF a.s * b.s = 0 THEN NaN ELSE Inf(a.s * b.s))
    ELSE LET h1 == a.m \div 10000
             l1 == a.m % 10000
             h2 == b.m \div 10000
             l2 == b.m % 10000
         IN  Norm(a.s * b.s,
                  h1 * h2 * 100 + (h1 * l2 + h2 * l1 + (l1 * l2) \div 10000) \div 100,
                  a.e + b.e + 6)

\* a * b
Mul(a, b) == With2(a, b, MulV)

\* the quotient digits of r / d: n more digits appended to acc
RECURSIVE LongDiv(_, _, _, _)
LongDiv(r, d, n, acc) ==
    IF n = 0 THEN acc
    ELSE With4((r * 10) % d, d, n - 1, acc * 10 + (r * 10) \div d, LongDiv)

DivV(a, b) ==
    IF a.k = "nan" \/ b.k = "nan" THEN NaN
    ELSE IF a.k = "inf"
         THEN (IF b.k = "inf" THEN NaN
               ELSE Inf(IF b.s = 0 THEN a.s ELSE a.s * b.s))
    ELSE IF b.k = "inf" THEN Zero
    ELSE IF b.s = 0 THEN (IF a.s = 0 THEN NaN ELSE Inf(a.s))
    ELSE IF a.s = 0 THEN Zero
    ELSE Norm(a.s * b.s, LongDiv(a.m % b.m, b.m, 7, a.m \div b.m), a.e - b.e - 7)

\* a / b the way numpy.float64 divides: x / 0.0 is inf (nan for 0.0 / 0.0)
Div(a, b) == With2(a, b, DivV)

\* the sum of two finite nonzero numbers, hi.e >= lo.e (two guard digits)
AddAligned(hi, lo) ==
    LET df == hi.e - lo.e
        sm == hi.s * hi.m * 100 +
              (IF df > 9 THEN 0 ELSE lo.s * ((lo.m * 100) \div (10 ^ df)))
    IN  Norm(Sign(sm), Abs(sm), hi.e - 2)

AddV(a, b) ==
    IF a.k # "num" \/ b.k # "num" THEN
        (IF a.k = "nan" \/ b.k = "nan" THEN NaN
         ELSE IF a.k = "inf" /\ b.k = "inf" /\ a.s # b.s THEN NaN
         ELSE IF a.k = "inf" THEN a ELSE b)
    ELSE IF a.s = 0 THEN b
    ELSE IF b.s = 0 THEN a
    ELSE IF a.e >= b.e THEN AddAligned(a, b) ELSE AddAligned(b, a)

\* a + b
Add(a, b) == With2(a, b, AddV)

Sub(a, b) == Add(a, Neg(b))

LtV(a, b) ==
    IF a.k = "nan" \/ b.k = "nan" THEN FALSE
    ELSE IF a.k = "inf" THEN a.s < 0 /\ ~(b.k = "inf" /\ b.s < 0)
    ELSE IF b.k = "inf" THEN b.s > 0
    ELSE Sub(b, a).s > 0

\* a < b, a <= b (False when either is NaN, as in Python)
Lt(a, b) == With2(a, b, LtV)

LeV(a, b) == a.k # "nan" /\ b.k # "nan" /\ (a = b \/ LtV(a, b))

Le(a, b) == With2(a, b, LeV)

PyMaxV(x, y) == IF LtV(x, y) THEN y ELSE x

\* Python's max(x, y): y when y > x, otherwise x
PyMax(x, y) == With2(x, y, PyMaxV)

\* floor of the square root of the natural number n, by bisection on [lo, hi)
RECURSIVE ISqrt(_, _, _)
ISqrt(n, lo, hi) ==
    IF hi - lo <= 1 THEN lo
    ELSE IF ((lo + hi) \div 2) * ((lo + hi) \div 2) <= n
         THEN With3(n, (lo + hi) \div 2, hi, ISqrt)
         ELSE With3(n, lo, (lo + hi) \div 2, ISqrt)

NewtonSqrtV(a, g) == Div(Add(g, Div(a, g)), FInt(2))

\* one Newton step towards sqrt(a) from the estimate g
NewtonSqrt(a, g) == With2(a, g, NewtonSqrtV)

SqrtV(a) ==
    IF a.k = "nan" THEN NaN
    ELSE IF a.s < 0 THEN NaN
    ELSE IF a.k = "inf" \/ a.s = 0 THEN a
    ELSE LET odd == (a.e % 2) = 1
             mm  == IF odd THEN a.m * 10 ELSE a.m
             ee  == IF odd THEN a.e - 1 ELSE a.e
         IN  NewtonSqrt(a, NewtonSqrt(a, Dec(ISqrt(mm, 0, 10001), ee \div 2)))

\* numpy.sqrt: nan for a negative argument
Sqrt(a) == With1(a, SqrtV)

MulFix6V(a, b) ==
    LET ah == a \div 1000
        al == a % 1000
        bh == b \div 1000
        bl == b % 1000
    IN  ah * bh + (ah * bl + al * bh + (al * bl) \div 1000) \div 1000

\* a * b / 10^6 rounded down, for naturals in millionths
MulFix6(a, b) == With2(a, b, MulFix6V)

\* sum of the series z^k / k!, z and the result in millionths
RECURSIVE TaylorExp(_, _, _, _)
TaylorExp(z, k, term, acc) ==
    IF term = 0 THEN acc
    ELSE With4(z, k + 1, MulFix6(term, z) \div (k + 1), acc + term, TaylorExp)

\* 10^(f / 10^6) in millionths, 0 <= f < 10^6
Pow10Frac(f) == TaylorExp(MulFix6(f, 2302585), 0, 1000000, 0)

\* |a| in millionths, rounded down, for |a| < 1000
ToFix6(a) ==
    IF a.s = 0 THEN 0
    ELSE IF a.e >= 0 - 6 THEN a.m * (10 ^ (a.e + 6))
    ELSE IF a.e < 0 - 16 THEN 0
    ELSE a.m \div (10 ^ (0 - 6 - a.e))

\* 10^(ys / 10^6) for the integer ys
Exp10Fix(ys) == Norm(1, Pow10Frac(ys - (ys \div 1000000) * 1000000),
                     (ys \div 1000000) - 6)

\* x / ln 10 in millionths, x in millionths
OverLn10(x) == MulFix6(x, 434294) + ((x \div 10000) * 4819) \div 1000000

ExpV(a) ==
    IF a.k = "nan" THEN NaN
    ELSE IF a.k = "inf" THEN (IF a.s > 0 THEN a ELSE Zero)
    ELSE IF a.s = 0 THEN FInt(1)
    ELSE IF a.e + 6 >= 3 THEN (IF a.s > 0 THEN Inf(1) ELSE Zero)
    ELSE With1(a.s * With1(ToFix6(a), OverLn10), Exp10Fix)

\* numpy.exp: 10^(a / ln 10); 0.0 below the binary64 range, inf above it
Exp(a) == With1(a, ExpV)

\* ---------------------------------------------------------------------
\* Module state of app.py and the state of one call
\* ---------------------------------------------------------------------

VARIABLES
    LYMPHODEPLETION_SETTINGS,  \* module-level dict, system name -> parameters
    BAG_TYPES,                 \* module-level dict, bag name -> optics
    UV_DOSE_RANGES,            \* module-level dict, UV band -> dose range
    caller,                    \* "main" (the Streamlit script) or "api"
    widgets,                   \* what main's sidebar widgets hold
    args,                      \* the arguments of the latest call
    pc,                        \* "ready", "returned" or "raised"
    result,                    \* the dict the latest call returned
    raised,                    \* the exception the latest call raised
    locals,                    \* the call's local variables when it ended
    eff_color,                 \* the colour main shows the efficiency in
    history                    \* a session's calls so far, oldest first

vars == <<LYMPHODEPLETION_SETTINGS, BAG_TYPES, UV_DOSE_RANGES, caller, widgets,
          args, pc, result, raised, locals, eff_color, history>>

tables == <<LYMPHODEPLETION_SETTINGS, BAG_TYPES, UV_DOSE_RANGES>>

None == [none |-> TRUE]

SettingsInit ==
    ("Spectra Optia" :>
        [flow_range |-> <<40, 60>>,
         plasma_removal_range |-> <<15, 30>>,
         acd_ratio_range |-> <<11, 14>>,
         hct_impact |-> Dec(3, 0 - 1),
         rbc_base_contam |-> Dec(30, 0 - 1)])
    @@
    ("Haemonetics" :>
        [flow_range |-> <<35, 55>>,
         plasma_removal_range |-> <<10, 25>>,
         acd_ratio_range |-> <<10, 13>>,
         hct_impact |-> Dec(7, 0 - 1),
         rbc_base_contam |-> Dec(60, 0 - 1)])

BagTypesInit ==
    ("Spectra Optia (Polyethylene)" :>
        [absorption |-> Dec(9, 0 - 1), scattering |-> Dec(55, 0 - 1),
         thickness |-> Dec(20, 0 - 2)])
    @@
    ("Haemonetics (PVC)" :>
        [absorption |-> Dec(13, 0 - 1), scattering |-> Dec(70, 0 - 1),
         thickness |-> Dec(25, 0 - 2)])

UvDoseRangesInit ==
    ("UV-A" :> <<Dec(10, 0 - 1), Dec(50, 0 - 1)>>)
    @@
    ("UV-B" :> <<Dec(5, 0 - 3), Dec(4, 0 - 1)>>)

\* numpy.pi to seven digits
Pi == Dec(3141592, 0 - 6)

\* the reference hematocrit of line 43 and the hood distance of line 58
HCT_REF == 40

HOOD_DISTANCE == 20

\* ---------------------------------------------------------------------
\* calculate_lymphodepletion
\* ---------------------------------------------------------------------

\* line 43 with the efficiency capped at 1 (a clamp the source does not have)
HctEfficiencyCapped(params, hct) ==
    With1(Sub(FInt(1), Div(Mul(params.hct_impact, FInt(hct - HCT_REF)),
                           FInt(HCT_REF))),
          LAMBDA e : IF Lt(FInt(1), e) THEN FInt(1) ELSE e)

\* line 43
HctEfficiency(params, hct) ==
    Sub(FInt(1), Div(Mul(params.hct_impact, FInt(hct - HCT_REF)), FInt(HCT_REF)))

\* line 46
InterfaceFactor(hct_efficiency) == Mul(Dec(125, 0 - 2), hct_efficiency)

\* line 47
FlowFactor(params, flow_rate, hct_efficiency) ==
    Mul(Div(FInt(flow_rate), FInt(params.flow_range[2])), hct_efficiency)

\* line 48
DepletionFactor(hct_efficiency) == Mul(Dec(12, 0 - 1), hct_efficiency)

\* line 51
MncConc(tlc, lymph_percent, flow_factor, interface_factor) ==
    Mul(Mul(Mul(Mul(Mul(tlc, Div(FInt(lymph_percent), FInt(100))),
                    Dec(13, 0 - 1)), FInt(6)), flow_factor), interface_factor)

\* line 52 with the anticoagulant ratio diluting the contamination
RbcContamAcd(a, params) ==
    Mul(Mul(Mul(params.rbc_base_contam, Div(FInt(a.hct), FInt(40))),
            Sub(FInt(1), Div(FInt(a.plasma_removal), FInt(25)))),
        Div(FInt(12), FInt(a.acd_ratio)))

\* line 52
RbcContam(a, params) ==
    Mul(Mul(params.rbc_base_contam, Div(FInt(a.hct), FInt(40))),
        Sub(FInt(1), Div(FInt(a.plasma_removal), FInt(25))))

\* lines 55-57
Transmission(bag) ==
    Exp(Mul(Neg(Sqrt(Mul(Mul(FInt(3), bag.absorption),
                         Add(bag.absorption, bag.scattering)))),
            bag.thickness))

\* line 58 without the hood override
DistanceCustomOnly(use_hood, custom_distance) == custom_distance

\* line 58
Distance(use_hood, custom_distance) ==
    IF ~use_hood THEN custom_distance ELSE HOOD_DISTANCE

\* line 59
Intensity(lamp_power, transmission, distance) ==
    Div(Mul(Mul(FInt(lamp_power * 1000), Dec(85, 0 - 2)), transmission),
        Mul(Mul(FInt(4), Pi), FInt(distance * distance)))

\* line 62
Shielding(mnc_conc, rbc_contam, hct) ==
    Add(Mul(Dec(15, 0 - 3), mnc_conc),
        Mul(Mul(Dec(3, 0 - 2), rbc_contam), Div(FInt(hct), FInt(40))))

\* line 63 without the floor
DoseMultiplierNoFloor(shielding) == Sub(FInt(1), shielding)

\* line 63, the clamped factor max(1 - shielding, 0.3)
DoseMultiplier(shielding) == PyMax(Sub(FInt(1), shielding), Dec(3, 0 - 1))

\* line 63
EffectiveDose(target_dose, transmission, multiplier, depletion_factor) ==
    Mul(Mul(Mul(target_dose, transmission), multiplier), depletion_factor)

\* line 64
ExpTime(effective_dose, intensity) ==
    Div(Div(effective_dose, Div(intensity, FInt(1000))), FInt(60))

\* line 67 with the CD34+ decay constant
LymphViabilitySlow(effective_dose) ==
    Mul(FInt(100), Exp(Mul(Dec(0 - 25, 0 - 2), effective_dose)))

\* line 67
LymphViability(effective_dose) ==
    Mul(FInt(100), Exp(Mul(Dec(0 - 15, 0 - 1), effective_dose)))

\* line 68
Cd34Viability(effective_dose) ==
    Mul(FInt(100), Exp(Mul(Dec(0 - 25, 0 - 2), effective_dose)))

\* The subscript LYMPHODEPLETION_SETTINGS[system] of line 40 and the
\* subscripts BAG_TYPES[bag_type] of lines 55-57: a missing key raises
\* KeyError.
HasKey(table, key) == key \in DOMAIN table

\* The body of the function from line 43 on, for a registered system and
\* bag: every local variable when line 70 is reached, each assigned once,
\* in the order of the source.
Body(a, params, bag) ==
    With1(HctEfficiency(params, a.hct), LAMBDA hct_efficiency :
    With1(InterfaceFactor(hct_efficiency), LAMBDA interface_factor :
    With1(FlowFactor(params, a.flow_rate, hct_efficiency), LAMBDA flow_factor :
    With1(DepletionFactor(hct_efficiency), LAMBDA depletion_factor :
    With1(MncConc(a.tlc, a.lymph_percent, flow_factor, interface_factor),
          LAMBDA mnc_conc :
    With1(RbcContam(a, params), LAMBDA rbc_contam :
    With1(Transmission(bag), LAMBDA transmission :
    With1(Distance(a.use_hood, a.custom_distance), LAMBDA distance :
    With1(Intensity(a.lamp_power, transmission, distance), LAMBDA intensity :
    With1(Shielding(mnc_conc, rbc_contam, a.hct), LAMBDA shielding :
    With1(DoseMultiplier(shielding), LAMBDA multiplier :
    With1(EffectiveDose(a.target_dose, transmission, multiplier,
                        depletion_factor), LAMBDA effective_dose :
        [params |-> params,
         hct_efficiency |-> hct_efficiency,
         interface_factor |-> interface_factor,
         flow_factor |-> flow_factor,
         depletion_factor |-> depletion_factor,
         mnc_conc |-> mnc_conc,
         rbc_contam |-> rbc_contam,
         transmission |-> transmission,
         distance |-> distance,
         intensity |-> intensity,
         shielding |-> shielding,
         multiplier |-> multiplier,
         effective_dose |-> effective_dose,
         exp_time |-> ExpTime(effective_dose, intensity),
         lymph_viability |-> LymphViability(effective_dose),
         cd34_viability |-> Cd34Viability(effective_dose)]
    ))))))))))))

\* lines 70-83: the returned dict, built from the locals
ReturnDict(l) ==
    [mnc_conc |-> l.mnc_conc,
     rbc_contam |-> l.rbc_contam,
     depletion_factor |-> l.depletion_factor,
     effective_dose |-> l.effective_dose,
     exp_time |-> l.exp_time,
     transmission |-> l.transmission,
     intensity |-> l.intensity,
     lymph_viability |-> l.lymph_viability,
     cd34_viability |-> l.cd34_viability,
     hct_efficiency |-> l.hct_efficiency,
     params |-> l.params,
     distance |-> l.distance]

\* A variant that catches the KeyError of an unknown bag and returns what
\* was computed before line 55.
calculate_lymphodepletion_partial(a, settings, bags) ==
    IF ~HasKey(settings, a.system)
    THEN [exc |-> [type |-> "KeyError", key |-> a.system],
          result |-> None, locals |-> None]
    ELSE IF ~HasKey(bags, a.bag_type)
    THEN [exc |-> None,
          result |-> [hct_efficiency |->
                          HctEfficiency(settings[a.system], a.hct),
                      rbc_contam |-> RbcContam(a, settings[a.system])],
          locals |-> None]
    ELSE With1(Body(a, settings[a.system], bags[a.bag_type]),
               LAMBDA l : [exc |-> None, result |-> ReturnDict(l), locals |-> l])

\* One call: [exc, result, locals].  The function has no raise statement
\* and no range check; the two table subscripts are its only failures.
\* Line 40 runs first, so an unknown system is reported before an unknown
\* bag.
calculate_lymphodepletion(a, settings, bags) ==
    IF ~HasKey(settings, a.system)
    THEN [exc |-> [type |-> "KeyError", key |-> a.system],
          result |-> None, locals |-> None]
    ELSE IF ~HasKey(bags, a.bag_type)
    THEN [exc |-> [type |-> "KeyError", key |-> a.bag_type],
          result |-> None, locals |-> None]
    ELSE With1(Body(a, settings[a.system], bags[a.bag_type]),
               LAMBDA l : [exc |-> None, result |-> ReturnDict(l), locals |-> l])

\* A variant that scales the base contamination in place, through the
\* params reference into LYMPHODEPLETION_SETTINGS.
TablesAfterCallScaled(a, t) ==
    IF a.system \in DOMAIN t[1]
    THEN <<[t[1] EXCEPT ![a.system].rbc_base_contam =
                Mul(@, Div(FInt(a.hct), FInt(40)))], t[2], t[3]>>
    ELSE t

\* What a call leaves in the three module-level tables: the function
\* assigns to none of them (it only reads them and returns one entry).
TablesAfterCall(a, t) == t

\* ---------------------------------------------------------------------
\* main(): the sidebar widgets and the call of line 154
\* ---------------------------------------------------------------------

\* st.slider(label, lo, hi, default) yields a value of [lo, hi]; the model
\* samples both ends.
SliderEnds(lo, hi, default) == {lo, hi}

\* lines 132-134
FlowDefault(hct, system) ==
    IF hct > 45 THEN (IF system = "Haemonetics" THEN 40 ELSE 50) ELSE 45

\* lines 145-147
AcdDefault(hct, system) ==
    IF hct > 45 THEN (IF system = "Haemonetics" THEN 11 ELSE 13) ELSE 12

\* lines 94-151: values the sidebar can hold, sampled at the sliders' ends.
\* The dose slider's ends come from UV_DOSE_RANGES, the three apheresis
\* sliders' ends from the selected system's ranges; the distance slider
\* (10..50) exists only without the hood.  lymph_percent is sampled at its
\* maximum (90) and lamp_power at its default (25); hct at 20, 40 and 60.
WidgetStates(settings, bags, doses) ==
    UNION { UNION { UNION {
        { [tlc |-> t, lymph_percent |-> lp, hct |-> h, system |-> sy,
           bag_type |-> b, uv_type |-> uv, target_dose |-> td,
           lamp_power |-> lpw, use_hood |-> hood, distance_slider |-> ds,
           flow_rate |-> fl, plasma_removal |-> pr, acd_ratio |-> acd] :
            t \in SliderEnds(Dec(5, 0), Dec(50, 0), Dec(10, 0)),
            lp \in {90},
            b \in DOMAIN bags,
            td \in SliderEnds(doses[uv][1], doses[uv][2], doses[uv][1]),
            lpw \in {25},
            fl \in SliderEnds(settings[sy].flow_range[1],
                              settings[sy].flow_range[2], FlowDefault(h, sy)),
            pr \in SliderEnds(settings[sy].plasma_removal_range[1],
                              settings[sy].plasma_removal_range[2], 20),
            acd \in SliderEnds(settings[sy].acd_ratio_range[1],
                               settings[sy].acd_ratio_range[2],
                               AcdDefault(h, sy)),
            ds \in (IF hood THEN {15} ELSE SliderEnds(10, 50, 15)) }
        : hood \in BOOLEAN }
        : uv \in DOMAIN doses }
        : <<h, sy>> \in {20, 40, 60} \X DOMAIN settings }

\* lines 121-127 and 154-156: the arguments main passes
MainArgs(w) ==
    [tlc |-> w.tlc, lymph_percent |-> w.lymph_percent, hct |-> w.hct,
     system |-> w.system, lamp_power |-> w.lamp_power,
     target_dose |-> w.target_dose, use_hood |-> w.use_hood,
     custom_distance |-> IF ~w.use_hood THEN w.distance_slider ELSE 20,
     bag_type |-> w.bag_type, flow_rate |-> w.flow_rate,
     plasma_removal |-> w.plasma_removal, acd_ratio |-> w.acd_ratio]

\* line 162
EffColor(res) ==
    IF Lt(res.hct_efficiency, Dec(85, 0 - 2)) THEN "red" ELSE "green"

\* ---------------------------------------------------------------------
\* Calls from other code
\* ---------------------------------------------------------------------

\* how far outside a declared range, and below zero, the sampled
\* arguments of a direct call go
Beyond == 5

\* The function is importable and checks nothing, so a direct caller can
\* pass any value.  NumericProbes: registered names with values inside and
\* outside the ranges, doses from 1e-17 to 2e4, distances down to 0 and
\* below.
NumericProbes(settings, bags) ==
    { [tlc |-> Dec(10, 0), lymph_percent |-> 40, hct |-> h, system |-> sy,
       lamp_power |-> 25, target_dose |-> td, use_hood |-> FALSE,
       custom_distance |-> cd, bag_type |-> b, flow_rate |-> fl,
       plasma_removal |-> pr, acd_ratio |-> acd] :
        h \in {20, 60, 100},
        sy \in DOMAIN settings,
        b \in DOMAIN bags,
        td \in {Dec(1, 0 - 17), Dec(3, 0), Dec(2, 4), Dec(0 - Beyond, 0)},
        cd \in {15, 0, 0 - Beyond},
        fl \in {35 - Beyond, 45, 60 + Beyond},
        pr \in {10 - Beyond, 20, 30},
        acd \in {10 - Beyond, 12} }

\* NameProbes: at least one of the two names is not registered.
NameProbes(settings, bags) ==
    { [tlc |-> Dec(10, 0), lymph_percent |-> 40, hct |-> h, system |-> n[1],
       lamp_power |-> 25, target_dose |-> Dec(3, 0), use_hood |-> hood,
       custom_distance |-> 15, bag_type |-> n[2], flow_rate |-> fl,
       plasma_removal |-> 20, acd_ratio |-> 12] :
        n \in ((DOMAIN settings \cup {"Acme 9000"}) \X (DOMAIN bags \cup {"Glass"}))
              \ ((DOMAIN settings) \X (DOMAIN bags)),
        h \in {40, 100},
        hood \in BOOLEAN,
        fl \in {45, 60 + Beyond} }

ApiArgs(settings, bags) ==
    NumericProbes(settings, bags) \cup NameProbes(settings, bags)

\* the arguments main passes when no widget has been touched
DefaultArgs ==
    [tlc |-> Dec(10, 0), lymph_percent |-> 40, hct |-> 40,
     system |-> "Spectra Optia", lamp_power |-> 25, target_dose |-> Dec(3, 0),
     use_hood |-> TRUE, custom_distance |-> 20,
     bag_type |-> "Spectra Optia (Polyethylene)", flow_rate |-> 45,
     plasma_removal |-> 20, acd_ratio |-> 12]

\* ---------------------------------------------------------------------
\* Specification: one call, from main or from other code
\* ---------------------------------------------------------------------

TablesInit ==
    /\ LYMPHODEPLETION_SETTINGS = SettingsInit
    /\ BAG_TYPES = BagTypesInit
    /\ UV_DOSE_RANGES = UvDoseRangesInit

Init ==
    /\ TablesInit
    /\ \/ /\ caller = "main"
          /\ widgets \in WidgetStates(SettingsInit, BagTypesInit, UvDoseRangesInit)
          /\ args = None
       \/ /\ caller = "api"
          /\ widgets = None
          /\ args \in ApiArgs(SettingsInit, BagTypesInit)
    /\ pc = "ready"
    /\ result = None
    /\ raised = None
    /\ locals = None
    /\ eff_color = "none"
    /\ history = <<>>

\* the state a call of the function with arguments a leaves behind
Called(a) ==
    \E out \in {calculate_lymphodepletion(a, LYMPHODEPLETION_SETTINGS, BAG_TYPES)},
       t \in {TablesAfterCall(a, tables)} :
        /\ args' = a
        /\ result' = out.result
        /\ raised' = out.exc
        /\ locals' = out.locals
        /\ pc' = IF out.exc = None THEN "returned" ELSE "raised"
        /\ LYMPHODEPLETION_SETTINGS' = t[1]
        /\ BAG_TYPES' = t[2]
        /\ UV_DOSE_RANGES' = t[3]

\* one run of the script: read the widgets, call, show the result
Main ==
    /\ pc = "ready"
    /\ caller = "main"
    /\ Called(MainArgs(widgets))
    /\ eff_color' = IF result' = None THEN eff_color ELSE EffColor(result')
    /\ UNCHANGED <<caller, widgets, history>>

\* a call by other code
ApiCall ==
    /\ pc = "ready"
    /\ caller = "api"
    /\ Called(args)
    /\ UNCHANGED <<caller, widgets, eff_color, history>>

Next == Main \/ ApiCall

Spec == Init /\ [][Next]_vars

\* ---------------------------------------------------------------------
\* Specification: a session of calls, each changing one argument or none
\* ---------------------------------------------------------------------

\* calls per session
MaxCalls == 3

\* the arguments a session varies
SessionFields ==
    {"hct", "system", "bag_type", "use_hood", "custom_distance", "acd_ratio",
     "flow_rate", "target_dose"}

\* the other value of argument f: each argument moves between main's
\* default and one more value of its widget
Other(a, f) ==
    CASE f = "hct" -> IF a.hct = 40 THEN 60 ELSE 40
      [] f = "system" -> IF a.system = "Spectra Optia" THEN "Haemonetics"
                         ELSE "Spectra Optia"
      [] f = "bag_type" -> IF a.bag_type = "Haemonetics (PVC)"
                           THEN "Spectra Optia (Polyethylene)"
                           ELSE "Haemonetics (PVC)"
      [] f = "use_hood" -> ~a.use_hood
      [] f = "custom_distance" -> IF a.custom_distance = 20 THEN 35 ELSE 20
      [] f = "acd_ratio" -> IF a.acd_ratio = 12 THEN 13 ELSE 12
      [] f = "flow_rate" -> IF a.flow_rate = 45 THEN 50 ELSE 45
      [] f = "target_dose" -> IF a.target_dose = Dec(3, 0) THEN Dec(5, 0)
                              ELSE Dec(3, 0)

SessionInit ==
    /\ TablesInit
    /\ caller = "api"
    /\ widgets = None
    /\ args = DefaultArgs
    /\ pc = "ready"
    /\ result = None
    /\ raised = None
    /\ locals = None
    /\ eff_color = "none"
    /\ history = <<>>

\* the next call of the session, with the arguments of the one before or
\* with one of them changed
SessionCall ==
    /\ Len(history) < MaxCalls
    /\ \E a \in {args} \cup {[args EXCEPT ![f] = Other(args, f)] : f \in SessionFields} :
        /\ Called(a)
        /\ history' = Append(history, [args |-> a, result |-> result',
                                       raised |-> raised'])
    /\ UNCHANGED <<caller, widgets, eff_color>>

\* the caller's use of the returned dict (lines 161-165): read only
Display ==
    /\ pc = "returned"
    /\ eff_color' = EffColor(result)
    /\ pc' = "shown"
    /\ UNCHANGED <<LYMPHODEPLETION_SETTINGS, BAG_TYPES, UV_DOSE_RANGES, caller,
                   widgets, args, result, raised, locals, history>>

SessionNext == SessionCall \/ Display

Session == SessionInit /\ [][SessionNext]_vars

\* ---------------------------------------------------------------------
\* Properties
\* ---------------------------------------------------------------------

Returned == pc \in {"returned", "shown"}

Ended == pc # "ready"

InRange(v, r) == r[1] <= v /\ v <= r[2]

Registered(a) ==
    /\ a.system \in DOMAIN LYMPHODEPLETION_SETTINGS
    /\ a.bag_type \in DOMAIN BAG_TYPES

\* flow_rate, plasma_removal and acd_ratio inside the system's ranges
SystemRangesOk(a) ==
    /\ InRange(a.flow_rate, LYMPHODEPLETION_SETTINGS[a.system].flow_range)
    /\ InRange(a.plasma_removal,
               LYMPHODEPLETION_SETTINGS[a.system].plasma_removal_range)
    /\ InRange(a.acd_ratio, LYMPHODEPLETION_SETTINGS[a.system].acd_ratio_range)

\* hct in [20, 60], tlc >= 0, lymph_percent in [0, 100]
DonorOk(a) ==
    /\ InRange(a.hct, <<20, 60>>)
    /\ Le(Zero, a.tlc)
    /\ InRange(a.lymph_percent, <<0, 100>>)

ValidatedCall ==
    Returned /\ Registered(args) /\ SystemRangesOk(args) /\ DonorOk(args)

\* C1: for a registered system and bag, flow_rate, plasma_removal and
\* acd_ratio inside the system's ranges, hct in [20, 60], tlc >= 0,
\* lymph_percent in [0, 100] and target_dose > 0, the dose multiplier
\* max(1 - shielding, 0.3) is at least 0.3 and the returned effective_dose
\* is not negative.
C1_DoseFloor ==
    (ValidatedCall /\ Lt(Zero, args.target_dose)) =>
        /\ Le(Dec(3, 0 - 1), locals.multiplier)
        /\ Le(Zero, result.effective_dose)

\* a validated call in which the floor is what the multiplier is
C1_Witness ==
    /\ ValidatedCall
    /\ Lt(Zero, args.target_dose)
    /\ Lt(FInt(1), locals.shielding)
    /\ locals.multiplier = Dec(3, 0 - 1)
    /\ Lt(Zero, result.effective_dose)

\* C2: a call with flow_rate, plasma_removal or acd_ratio outside the
\* selected system's declared range ends in an OutOfRange failure and
\* returns no result.
C2_OutOfRangeFails ==
    (Ended /\ Registered(args) /\ ~SystemRangesOk(args)) =>
        /\ pc = "raised"
        /\ raised.type = "OutOfRange"
        /\ result = None

\* C3: a call with a system name not in LYMPHODEPLETION_SETTINGS or a
\* bag_type not in BAG_TYPES fails, naming the unknown key, and returns
\* no result at all, whichever name is unknown and whatever the other
\* arguments are.
C3_UnknownProfile ==
    (Ended /\ ~Registered(args)) =>
        /\ pc = "raised"
        /\ raised.type = "KeyError"
        /\ raised.key \in {args.system, args.bag_type}
        /\ raised.key \notin (DOMAIN LYMPHODEPLETION_SETTINGS \cup DOMAIN BAG_TYPES)
        /\ result = None

\* the unknown name is the bag, whose lookup comes after lines 43-52 ran
C3_Witness ==
    /\ pc = "raised"
    /\ args.system \in DOMAIN LYMPHODEPLETION_SETTINGS
    /\ args.bag_type \notin DOMAIN BAG_TYPES
    /\ raised.key = args.bag_type
    /\ result = None

\* C4: a call with use_hood false and custom_distance <= 0 fails with
\* InvalidGeometry instead of returning a result.
C4_InvalidGeometry ==
    (Ended /\ Registered(args) /\ ~args.use_hood /\ args.custom_distance <= 0) =>
        /\ pc = "raised"
        /\ raised.type = "InvalidGeometry"
        /\ result = None

\* C5: when every input is within its validated range, the returned
\* mnc_conc and rbc_contam are both non-negative.
C5_NonNegativeComposition ==
    ValidatedCall =>
        /\ Le(Zero, result.mnc_conc)
        /\ Le(Zero, result.rbc_contam)

ImpactTenths(params) == CHOOSE i \in 0..10 : params.hct_impact = Dec(i, 0 - 1)

\* 400 * (1 - hct_impact * (hct - 40) / 40), an integer
Efficiency400(a) ==
    400 - ImpactTenths(LYMPHODEPLETION_SETTINGS[a.system]) * (a.hct - 40)

\* |x| in ten-thousandths, rounded down
AbsFix4(x) ==
    IF x.s = 0 THEN 0
    ELSE IF x.e >= 0 - 4 THEN x.m * (10 ^ (x.e + 4))
    ELSE x.m \div (10 ^ (0 - 4 - x.e))

\* C7: hct_efficiency is 1 - hct_impact * (hct - 40) / 40, unclamped:
\* exactly 1.0 at hct = 40, exactly 0.65 at hct = 60 with hct_impact 0.7;
\* interface_factor is 1.25 times it, depletion_factor 1.2 times it and
\* flow_factor (flow_rate / flow_max) times it (to the last digits kept).
C7_HctEfficiency ==
    Returned =>
        LET n    == Efficiency400(args)
            fmax == LYMPHODEPLETION_SETTINGS[args.system].flow_range[2]
        IN  /\ locals.hct_efficiency = Dec(2500 * n, 0 - 6)
            /\ result.hct_efficiency = locals.hct_efficiency
            /\ args.hct = 40 => result.hct_efficiency = FInt(1)
            /\ (args.hct = 60 /\ args.system = "Haemonetics") =>
                   result.hct_efficiency = Dec(65, 0 - 2)
            /\ locals.interface_factor = Dec(3125 * n, 0 - 6)
            /\ result.depletion_factor = Dec(3000 * n, 0 - 6)
            /\ locals.flow_factor.s = Sign(n) * Sign(args.flow_rate)
            /\ Abs(AbsFix4(locals.flow_factor) * fmax * 400
                   - Abs(args.flow_rate) * Abs(n) * 10000) <= 2 * fmax * 400

\* hct = 60 on the system with hct_impact 0.7
C7_Witness ==
    /\ Returned
    /\ args.hct = 60
    /\ args.system = "Haemonetics"
    /\ LYMPHODEPLETION_SETTINGS[args.system].hct_impact = Dec(7, 0 - 1)
    /\ result.hct_efficiency = Dec(65, 0 - 2)
    /\ result.depletion_factor = Dec(78, 0 - 2)

SameExcept(a, b, f) == \A g \in (DOMAIN a) \ {f} : a[g] = b[g]

\* C9: the distance is 20 with the hood and custom_distance without it;
\* with the hood, two calls that differ only in custom_distance return the
\* same result.
C9_HoodDistance ==
    /\ \A i \in DOMAIN history :
        history[i].result # None =>
            history[i].result.distance =
                IF history[i].args.use_hood THEN 20
                ELSE history[i].args.custom_distance
    /\ \A i, j \in DOMAIN history :
        (/\ history[i].args.use_hood
         /\ history[j].args.use_hood
         /\ SameExcept(history[i].args, history[j].args, "custom_distance")) =>
            /\ history[i].result = history[j].result
            /\ history[i].raised = history[j].raised

\* two calls with the hood that differ in custom_distance alone
C9_Witness ==
    \E i, j \in DOMAIN history :
        /\ history[i].args.use_hood
        /\ history[j].args.use_hood
        /\ SameExcept(history[i].args, history[j].args, "custom_distance")
        /\ history[i].args.custom_distance # history[j].args.custom_distance
        /\ history[i].result # None
        /\ history[j].result.distance = 20

\* C10: two calls that differ only in acd_ratio return the same value in
\* every field.
C10_AcdRatioUnused ==
    \A i, j \in DOMAIN history :
        SameExcept(history[i].args, history[j].args, "acd_ratio") =>
            /\ history[i].result = history[j].result
            /\ history[i].raised = history[j].raised

\* two calls that differ in acd_ratio alone
C10_Witness ==
    \E i, j \in DOMAIN history :
        /\ SameExcept(history[i].args, history[j].args, "acd_ratio")
        /\ history[i].args.acd_ratio # history[j].args.acd_ratio
        /\ history[i].result # None
        /\ history[j].result # None

====
